---- MODULE Spec2Model ----
(***************************************************************************)
(* TimeZoneSwapper: a clipboard time converter between America/New_York    *)
(* (ET) and Australia/Perth (AWST).                                        *)
(*                                                                         *)
(* Text is modelled as a sequence of whitespace-separated tokens; each     *)
(* regular expression of the program is modelled by what it matches on     *)
(* such a sequence.  Dates are proleptic Gregorian ordinals (as Python's   *)
(* date.toordinal), wall-clock values are minutes since ordinal 0.         *)
(***************************************************************************)
EXTENDS Integers, Sequences, FiniteSets, TLC

VARIABLES
    pc,       \* position of the running process (module import, then main)
    tzdata,   \* environment: is the zone rule database installed
    today,    \* environment: date.today(), an ordinal
    raw,      \* main: the input text
    parsed,   \* main: the result of parse_input
    conv,     \* main: source / target zone and converted date/time
    sink,     \* the texts handed to write_clipboard_windows by main
    cb,       \* one execution of a clipboard function
    call,     \* the arguments of a function under test
    ret       \* its result

vars == <<pc, tzdata, today, raw, parsed, conv, sink, cb, call, ret>>

mainVars == <<pc, tzdata, today, raw, parsed, conv, sink>>

----------------------------------------------------------------------------
(* Bounds of the model                                                     *)

\* longest input text, in tokens
MaxLen == 3

\* calendar years after BaseYear whose wall-clock values are converted
ExtraYears == 0

\* the year of the examples of the documentation
BaseYear == 2026

None == "None"

----------------------------------------------------------------------------
(* Calendar: datetime.date                                                 *)

IsLeap(y) == (y % 4 = 0) /\ ((y % 100 # 0) \/ (y % 400 = 0))

DaysInMonth(y, m) ==
    IF m = 2 THEN (IF IsLeap(y) THEN 29 ELSE 28)
    ELSE IF m \in {4, 6, 9, 11} THEN 30 ELSE 31

RECURSIVE DaysBeforeMonth(_, _)
DaysBeforeMonth(y, m) ==
    IF m = 1 THEN 0 ELSE DaysBeforeMonth(y, m - 1) + DaysInMonth(y, m - 1)

DaysBeforeYear(y) ==
    365 * (y - 1) + ((y - 1) \div 4) - ((y - 1) \div 100) + ((y - 1) \div 400)

\* date(y, m, d) raises ValueError unless this holds
ValidDate(y, m, d) ==
    /\ m \in 1..12
    /\ d >= 1
    /\ d <= DaysInMonth(y, m)

\* date(y, m, d).toordinal()
Ordinal(y, m, d) == DaysBeforeYear(y) + DaysBeforeMonth(y, m) + d

\* the years a date of the model can fall in
CalYears == (BaseYear - 1)..(BaseYear + ExtraYears + 1)

YearOf(n) ==
    CHOOSE y \in CalYears : DaysBeforeYear(y) < n /\ n <= DaysBeforeYear(y + 1)

MonthOf(n) ==
    LET y == YearOf(n)
    IN  CHOOSE m \in 1..12 :
            /\ Ordinal(y, m, 1) <= n
            /\ n < Ordinal(y, m, 1) + DaysInMonth(y, m)

DayOf(n) == n - Ordinal(YearOf(n), MonthOf(n), 1) + 1

\* date.weekday(): Monday is 0
Weekday(n) == (n + 6) % 7

----------------------------------------------------------------------------
(* Wall-clock values: datetime without tzinfo, in minutes                  *)

MinutesPerDay == 24 * 60

\* time(hour, minute) raises ValueError unless this holds
ValidTime(hour, minute) == hour \in 0..23 /\ minute \in 0..59

\* datetime.combine(date, time(hour, minute))
Combine(d, hour, minute) == d * MinutesPerDay + hour * 60 + minute

DateOf(w) == w \div MinutesPerDay
HourOf(w) == (w % MinutesPerDay) \div 60
MinuteOf(w) == w % 60

----------------------------------------------------------------------------
(* Time zones: ZoneInfo("America/New_York"), ZoneInfo("Australia/Perth")   *)

ET == "ET"
AWST == "AWST"
Zones == {ET, AWST}

\* the first date on or after ordinal n that falls on weekday wd
FirstOnOrAfter(n, wd) == n + ((wd - Weekday(n)) % 7)

\* New York: daylight time begins on the second Sunday of March and ends
\* on the first Sunday of November, at 02:00 local time
DstStartDate(y) == FirstOnOrAfter(Ordinal(y, 3, 1), 6) + 7
DstEndDate(y) == FirstOnOrAfter(Ordinal(y, 11, 1), 6)

UtcOffsetOfWallFixed(zone, w) ==
    IF zone = AWST THEN 8 * 60 ELSE -(5 * 60)

\* utcoffset() of a wall-clock value with fold = 0, in minutes: a value in
\* the spring-forward gap gets the offset in force before the transition, a
\* value in the fall-back overlap its first occurrence
UtcOffsetOfWall(zone, w) ==
    IF zone = AWST THEN 8 * 60
    ELSE LET y == YearOf(DateOf(w))
         IN  IF /\ w >= Combine(DstStartDate(y), 3, 0)
                /\ w < Combine(DstEndDate(y), 2, 0)
             THEN -(4 * 60)
             ELSE -(5 * 60)

UtcOffsetAtStandardOnly(zone, u) ==
    IF zone = AWST THEN 8 * 60 ELSE -(5 * 60)

\* the offset in force at an absolute instant u (UTC minutes)
UtcOffsetAt(zone, u) ==
    IF zone = AWST THEN 8 * 60
    ELSE LET y == YearOf(DateOf(u - 5 * 60))
         IN  IF /\ u >= Combine(DstStartDate(y), 7, 0)
                /\ u < Combine(DstEndDate(y), 6, 0)
             THEN -(4 * 60)
             ELSE -(5 * 60)

\* dt.replace(tzinfo=zone): the absolute instant of a wall-clock value
ToUtc(zone, w) == w - UtcOffsetOfWall(zone, w)

\* dt.astimezone(zone): the wall-clock value of an instant in a zone
FromUtc(zone, u) == u + UtcOffsetAt(zone, u)

\* dt_naive.replace(tzinfo=source).astimezone(target)
AsTimezone(source, w, target) == FromUtc(target, ToUtc(source, w))

----------------------------------------------------------------------------
(* Date helpers                                                            *)

NextWeekdayNoQualifier(reference, target_wd, when) ==
    reference + ((target_wd - Weekday(reference)) % 7)

\* next_weekday(reference, target_wd, when)
next_weekday(reference, target_wd, when) ==
    LET ref_wd == Weekday(reference)
        days_ahead == (target_wd - ref_wd) % 7
    IN  IF when = "next"
        THEN reference + (IF days_ahead # 0 THEN days_ahead ELSE 7)
        ELSE reference + days_ahead

----------------------------------------------------------------------------
(* Time resolution (parse_input, after TIME_RE matched)                    *)

\* ampm.lower()
LowerAmPm(ampm) ==
    CASE ampm = "AM" -> "am"
      [] ampm = "PM" -> "pm"
      [] OTHER -> ampm

ResolveHourPmBelowTwelveOnly(hour, ampm) ==
    IF ampm = None THEN hour
    ELSE IF LowerAmPm(ampm) = "pm" /\ hour < 12 THEN hour + 12
    ELSE hour

\* the 24-hour hour of a matched hour and meridiem
ResolveHour(hour, ampm) ==
    IF ampm = None THEN hour
    ELSE LET am == LowerAmPm(ampm)
             h1 == IF am = "pm" /\ hour < 12 THEN hour + 12 ELSE hour
         IN  IF am = "am" /\ h1 = 12 THEN 0 ELSE h1

\* m_time.group("m") of a token without a minute
NoMinute == -1

\* the minute of a matched token: 0 when the token has no minute
ResolveMinute(m) == IF m = NoMinute THEN 0 ELSE m

----------------------------------------------------------------------------
(* Host timezone names: str(datetime.now().astimezone().tzinfo), as        *)
(* sequences of characters                                                 *)

\* "America/New_York"
NewYorkKey ==
    <<"A", "m", "e", "r", "i", "c", "a", "/", "N", "e", "w", "_", "Y", "o", "r", "k">>

\* "Australia/Perth"
PerthKey ==
    <<"A", "u", "s", "t", "r", "a", "l", "i", "a", "/", "P", "e", "r", "t", "h">>

\* "Eastern Standard Time"
EasternStandardTime ==
    <<"E", "a", "s", "t", "e", "r", "n", " ", "S", "t", "a", "n", "d", "a", "r", "d", " ", "T", "i", "m", "e">>

\* "Eastern Daylight Time"
EasternDaylightTime ==
    <<"E", "a", "s", "t", "e", "r", "n", " ", "D", "a", "y", "l", "i", "g", "h", "t", " ", "T", "i", "m", "e">>

\* "W. Australia Standard Time"
WAustraliaStandardTime ==
    <<"W", ".", " ", "A", "u", "s", "t", "r", "a", "l", "i", "a", " ", "S", "t", "a", "n", "d", "a", "r", "d", " ", "T", "i", "m", "e">>

\* "AUS Eastern Standard Time"
AusEasternStandardTime ==
    <<"A", "U", "S", " ", "E", "a", "s", "t", "e", "r", "n", " ", "S", "t", "a", "n", "d", "a", "r", "d", " ", "T", "i", "m", "e">>

\* "EST"
NameEST ==
    <<"E", "S", "T">>

\* "EDT"
NameEDT ==
    <<"E", "D", "T">>

\* "AWST"
NameAWST ==
    <<"A", "W", "S", "T">>

\* "UTC"
NameUTC ==
    <<"U", "T", "C">>

\* "New_York"
SubNewYork ==
    <<"N", "e", "w", "_", "Y", "o", "r", "k">>

\* "Eastern"
SubEastern ==
    <<"E", "a", "s", "t", "e", "r", "n">>

\* "Perth"
SubPerth ==
    <<"P", "e", "r", "t", "h">>

\* "AWST"
SubAWST ==
    <<"A", "W", "S", "T">>

HostNames ==
    { NewYorkKey, PerthKey, EasternStandardTime, EasternDaylightTime,
      WAustraliaStandardTime, AusEasternStandardTime, NameEST, NameEDT,
      NameAWST, NameUTC }

\* sub in name
Contains(name, sub) ==
    \E i \in 1..(Len(name) - Len(sub) + 1) :
        SubSeq(name, i, i + Len(sub) - 1) = sub

\* the source zone inferred from the name of the local timezone
SourceFromHost(name) ==
    IF \/ Contains(name, SubNewYork)
       \/ Contains(name, NewYorkKey)
       \/ Contains(name, SubEastern)
    THEN ET
    ELSE IF \/ Contains(name, SubPerth)
            \/ Contains(name, PerthKey)
            \/ Contains(name, SubAWST)
    THEN AWST
    ELSE ET

TargetAlwaysAWST(source) == AWST

\* target = AWST if source is ET else ET
TargetOf(source) == IF source = ET THEN AWST ELSE ET

\* determine_source_and_target(dt_naive, src_zone_hint), the local timezone
\* name being host
determine_source_and_target(dt_naive, src_zone_hint, host) ==
    LET source == IF src_zone_hint # None THEN src_zone_hint
                  ELSE SourceFromHost(host)
        target == TargetOf(source)
    IN  [dt_source |-> [wall |-> dt_naive, tzinfo |-> source],
         source |-> source,
         target |-> target]

\* tz_label_for(zone)
tz_label_for(zone) == IF zone = AWST THEN "AWST" ELSE "ET"

----------------------------------------------------------------------------
(* Idle values of the variables a specification does not use               *)

NoCall == [fn |-> "none"]
NoRet == [fn |-> "none"]
NoParse == [kind |-> "unset"]
NoConv == [kind |-> "unset"]
NoClipboard == [fn |-> "none"]

MainIdle ==
    /\ pc = "idle"
    /\ tzdata = TRUE
    /\ today = Ordinal(BaseYear, 1, 1)
    /\ raw = <<>>
    /\ parsed = NoParse
    /\ conv = NoConv
    /\ sink = <<>>

\* the dates of the years under conversion
ModelDates ==
    Ordinal(BaseYear, 1, 1)..Ordinal(BaseYear + ExtraYears, 12, 31)

----------------------------------------------------------------------------
(* next_weekday applied to every reference date, weekday and qualifier     *)

InitWeekday ==
    /\ MainIdle
    /\ cb = NoClipboard
    /\ ret = NoRet
    /\ call \in [fn : {"next_weekday"}, reference : ModelDates,
                 target_wd : 0..6, when : {"next", "this", None}]

CallNextWeekday ==
    /\ call.fn = "next_weekday"
    /\ ret = NoRet
    /\ ret' = [fn |-> "next_weekday",
               date |-> next_weekday(call.reference, call.target_wd, call.when)]
    /\ UNCHANGED <<mainVars, cb, call>>

NextWeekday == CallNextWeekday

SpecWeekday == InitWeekday /\ [][NextWeekday]_vars

----------------------------------------------------------------------------
(* The time resolution applied to every token TIME_RE can match            *)

InitTime ==
    /\ MainIdle
    /\ cb = NoClipboard
    /\ ret = NoRet
    /\ call \in [fn : {"time"}, h : 0..99, m : {NoMinute} \cup 0..99,
                 ampm : {None, "am", "pm", "AM", "PM"}]

CallResolveTime ==
    /\ call.fn = "time"
    /\ ret = NoRet
    /\ ret' = [fn |-> "time",
               hour |-> ResolveHour(call.h, call.ampm),
               minute |-> ResolveMinute(call.m)]
    /\ UNCHANGED <<mainVars, cb, call>>

NextTime == CallResolveTime

SpecTime == InitTime /\ [][NextTime]_vars

----------------------------------------------------------------------------
(* determine_source_and_target applied to every hint and host name         *)

SampleWalls ==
    { Combine(Ordinal(BaseYear, 2, 12), 15, 30),
      Combine(Ordinal(BaseYear, 2, 3), 8, 0),
      Combine(Ordinal(BaseYear, 3, 8), 2, 30),
      Combine(Ordinal(BaseYear, 7, 4), 0, 0),
      Combine(Ordinal(BaseYear, 11, 1), 1, 30),
      Combine(Ordinal(BaseYear, 12, 31), 23, 59) }

InitZone ==
    /\ MainIdle
    /\ cb = NoClipboard
    /\ ret = NoRet
    /\ call \in [fn : {"determine"}, dt_naive : SampleWalls,
                 hint : {ET, AWST, None}, host : HostNames]

CallDetermine ==
    /\ call.fn = "determine"
    /\ ret = NoRet
    /\ ret' = [fn |-> "determine",
               r |-> determine_source_and_target(call.dt_naive, call.hint,
                                                 call.host)]
    /\ UNCHANGED <<mainVars, cb, call>>

NextZone == CallDetermine

SpecZone == InitZone /\ [][NextZone]_vars

----------------------------------------------------------------------------
(* The conversion applied to every half hour of the years under            *)
(* conversion, and the conversion of its result back                       *)

ModelWalls ==
    { Combine(d, h, m) : d \in ModelDates, h \in 0..23, m \in {0, 30} }

InitConv ==
    /\ MainIdle
    /\ cb = NoClipboard
    /\ ret = NoRet
    /\ call \in [fn : {"convert"}, dt_naive : ModelWalls, hint : {ET, AWST},
                 host : {NameUTC}]

\* lines 342-343 of main: determine the zones, convert to the target zone
CallConvert ==
    /\ call.fn = "convert"
    /\ ret = NoRet
    /\ LET r == determine_source_and_target(call.dt_naive, call.hint, call.host)
       IN  ret' = [fn |-> "convert",
                   source |-> r.source,
                   target |-> r.target,
                   dt_target |-> AsTimezone(r.source, r.dt_source.wall, r.target)]
    /\ UNCHANGED <<mainVars, cb, call>>

\* the same conversion applied to the result, marked with the target zone
CallConvertBack ==
    /\ ret.fn = "convert"
    /\ LET r == determine_source_and_target(ret.dt_target, ret.target, call.host)
       IN  ret' = [fn |-> "back",
                   source |-> r.source,
                   target |-> r.target,
                   dt_target |-> AsTimezone(r.source, r.dt_source.wall, r.target)]
    /\ UNCHANGED <<mainVars, cb, call>>

NextConv == CallConvert \/ CallConvertBack

SpecConv == InitConv /\ [][NextConv]_vars

----------------------------------------------------------------------------
(* Input text: a sequence of tokens.  A word is a run of letters (with     *)
(* "/" and "_" in zone names), an ISO token is dddd-dd-dd, a number token  *)
(* is one or two digits, optionally ":dd", optionally a meridiem.          *)

Word(s) == [k |-> "word", s |-> s]
Iso(y, m, d) == [k |-> "iso", y |-> y, m |-> m, d |-> d]
Num(h, m, ampm) == [k |-> "num", h |-> h, m |-> m, ampm |-> ampm]

IsWord(t) == t.k = "word"
IsIso(t) == t.k = "iso"
IsNum(t) == t.k = "num"

\* str.lower() on the words of the model
Lower(s) ==
    CASE s = "ET" -> "et"
      [] s = "EST" -> "est"
      [] s = "Perth" -> "perth"
      [] s = "Mar" -> "mar"
      [] s = "Feb" -> "feb"
      [] s = "AM" -> "am"
      [] s = "PM" -> "pm"
      [] OTHER -> s

\* len() of the words of the model
WordLen(s) ==
    CASE s \in {"ET", "am", "pm", "AM", "PM"} -> 2
      [] s \in {"EST", "Mar", "Feb"} -> 3
      [] s \in {"next", "this"} -> 4
      [] s \in {"Perth", "hello", "today", "world"} -> 5
      [] s = "tuesday" -> 7
      [] s = "tomorrow" -> 8
      [] s = "yesterday" -> 9
      [] OTHER -> 6

\* s[:3].lower() of the words of the model
First3(s) ==
    CASE s = "Perth" -> "per"
      [] s = "hello" -> "hel"
      [] s = "world" -> "wor"
      [] s = "today" -> "tod"
      [] s = "tomorrow" -> "tom"
      [] s = "yesterday" -> "yes"
      [] s = "tuesday" -> "tue"
      [] s = "next" -> "nex"
      [] s = "this" -> "thi"
      [] OTHER -> Lower(s)

\* ET_MARKERS, AWST_MARKERS: whole words, case-insensitive
ET_MARKERS == {"eastern", "et", "est", "edt", "america/new_york"}
AWST_MARKERS == {"awst", "perth", "australia/perth"}

\* RELATIVE_RE
RELATIVE_WORDS == {"today", "tomorrow", "yesterday"}

\* the qualifiers of WEEKDAY_RE
QUALIFIERS == {"this", "next"}

\* WEEKDAY_MAP
WEEKDAY_MAP ==
    [w \in {"mon", "monday"} |-> 0] @@
    [w \in {"tue", "tues", "tuesday"} |-> 1] @@
    [w \in {"wed", "wednesday"} |-> 2] @@
    [w \in {"thu", "thur", "thurs", "thursday"} |-> 3] @@
    [w \in {"fri", "friday"} |-> 4] @@
    [w \in {"sat", "saturday"} |-> 5] @@
    [w \in {"sun", "sunday"} |-> 6]

\* datetime.strptime(mon, "%b").month; 0 stands for the ValueError
MonthNumber(mon) ==
    CASE mon = "jan" -> 1 [] mon = "feb" -> 2 [] mon = "mar" -> 3
      [] mon = "apr" -> 4 [] mon = "may" -> 5 [] mon = "jun" -> 6
      [] mon = "jul" -> 7 [] mon = "aug" -> 8 [] mon = "sep" -> 9
      [] mon = "oct" -> 10 [] mon = "nov" -> 11 [] mon = "dec" -> 12
      [] OTHER -> 0

\* the meridiems TIME_RE accepts (no other mix of cases)
MERIDIEMS == {"am", "pm", "AM", "PM"}

\* parsed_date = None
NoDate == 0

IsMarker(t, markers) == IsWord(t) /\ Lower(t.s) \in markers
IsRelative(t) == IsWord(t) /\ Lower(t.s) \in RELATIVE_WORDS
IsWeekdayWord(t) == IsWord(t) /\ Lower(t.s) \in DOMAIN WEEKDAY_MAP
IsQualifier(t) == IsWord(t) /\ Lower(t.s) \in QUALIFIERS
HasDigits(t) == IsNum(t) \/ IsIso(t)

\* s with every token equal to t removed: s.replace(text, "")
RECURSIVE Without(_, _)
Without(s, t) ==
    IF s = <<>> THEN <<>>
    ELSE IF Head(s) = t THEN Without(Tail(s), t)
    ELSE <<Head(s)>> \o Without(Tail(s), t)

\* s with every adjacent pair t1 t2 removed
RECURSIVE WithoutPair(_, _, _)
WithoutPair(s, t1, t2) ==
    IF Len(s) < 2 THEN s
    ELSE IF s[1] = t1 /\ s[2] = t2 THEN WithoutPair(Tail(Tail(s)), t1, t2)
    ELSE <<Head(s)>> \o WithoutPair(Tail(s), t1, t2)

\* XXX_MARKERS.sub("", s)
RECURSIVE WithoutMarkers(_, _)
WithoutMarkers(s, markers) ==
    IF s = <<>> THEN <<>>
    ELSE IF IsMarker(Head(s), markers) THEN WithoutMarkers(Tail(s), markers)
    ELSE <<Head(s)>> \o WithoutMarkers(Tail(s), markers)

MarkerStepPerthFirst(s) ==
    IF \E i \in 1..Len(s) : IsMarker(s[i], AWST_MARKERS)
    THEN [src_zone |-> AWST, s |-> WithoutMarkers(s, AWST_MARKERS)]
    ELSE IF \E i \in 1..Len(s) : IsMarker(s[i], ET_MARKERS)
    THEN [src_zone |-> ET, s |-> WithoutMarkers(s, ET_MARKERS)]
    ELSE [src_zone |-> None, s |-> s]

\* the timezone hint from markers, and the text without them
MarkerStep(s) ==
    IF \E i \in 1..Len(s) : IsMarker(s[i], ET_MARKERS)
    THEN [src_zone |-> ET, s |-> WithoutMarkers(s, ET_MARKERS)]
    ELSE IF \E i \in 1..Len(s) : IsMarker(s[i], AWST_MARKERS)
    THEN [src_zone |-> AWST, s |-> WithoutMarkers(s, AWST_MARKERS)]
    ELSE [src_zone |-> None, s |-> s]

\* fromisoformat raises ValueError unless this holds
ValidIso(t) == t.y \in 1..9999 /\ ValidDate(t.y, t.m, t.d)

\* ISO_DATE_RE.search: the position of the first ISO token, or 0
IsoIndex(s) ==
    IF \E i \in 1..Len(s) : IsIso(s[i])
    THEN CHOOSE i \in 1..Len(s) :
            IsIso(s[i]) /\ \A j \in 1..(i - 1) : ~IsIso(s[j])
    ELSE 0

\* the ISO date: st is "raise" when fromisoformat raises
IsoStep(s) ==
    LET i == IsoIndex(s)
    IN  IF i = 0 THEN [st |-> "ok", date |-> NoDate, s |-> s]
        ELSE IF ~ValidIso(s[i]) THEN [st |-> "raise", date |-> NoDate, s |-> s]
        ELSE [st |-> "ok",
              date |-> Ordinal(s[i].y, s[i].m, s[i].d),
              s |-> Without(s, s[i])]

\* MONTHDAY_RE matches at i: three or more letters, then the leading
\* digits of the next token
MonthDayAt(s, i) ==
    /\ i < Len(s)
    /\ IsWord(s[i])
    /\ WordLen(s[i].s) >= 3
    /\ IsNum(s[i + 1])

\* MONTHDAY_RE.search: the position of the first match, or 0
MonthDayIndex(s) ==
    IF \E i \in 1..Len(s) : MonthDayAt(s, i)
    THEN CHOOSE i \in 1..Len(s) :
            MonthDayAt(s, i) /\ \A j \in 1..(i - 1) : ~MonthDayAt(s, j)
    ELSE 0

\* what is left of a number token once its leading digits are removed
Residual(t) ==
    IF t.m # NoMinute THEN <<Num(t.m, NoMinute, t.ampm)>>
    ELSE IF t.ampm # None THEN <<Word(t.ampm)>>
    ELSE <<>>

\* s.replace(m_md.group(0), ""): every occurrence of the word followed by
\* the digits is removed (no number of the model is a prefix of another)
RECURSIVE WithoutMonthDay(_, _, _)
WithoutMonthDay(s, w, day) ==
    IF Len(s) < 2 THEN s
    ELSE IF s[1] = w /\ IsNum(s[2]) /\ s[2].h = day
    THEN Residual(s[2]) \o WithoutMonthDay(Tail(Tail(s)), w, day)
    ELSE <<Head(s)>> \o WithoutMonthDay(Tail(s), w, day)

\* the month+day date of the current year; any exception leaves the date
\* unset and the text as it was
MonthDayStep(s, now) ==
    LET i == MonthDayIndex(s)
    IN  IF i = 0 THEN [date |-> NoDate, s |-> s]
        ELSE LET mon_num == MonthNumber(First3(s[i].s))
                 day == s[i + 1].h
             IN  IF mon_num = 0 \/ ~ValidDate(YearOf(now), mon_num, day)
                 THEN [date |-> NoDate, s |-> s]
                 ELSE [date |-> Ordinal(YearOf(now), mon_num, day),
                       s |-> WithoutMonthDay(s, s[i], day)]

\* RELATIVE_RE.search: the position of the first match, or 0
RelativeIndex(s) ==
    IF \E i \in 1..Len(s) : IsRelative(s[i])
    THEN CHOOSE i \in 1..Len(s) :
            IsRelative(s[i]) /\ \A j \in 1..(i - 1) : ~IsRelative(s[j])
    ELSE 0

RelativeStep(s, now) ==
    LET i == RelativeIndex(s)
    IN  IF i = 0 THEN [date |-> NoDate, s |-> s]
        ELSE LET kw == Lower(s[i].s)
             IN  [date |-> IF kw = "today" THEN now
                           ELSE IF kw = "tomorrow" THEN now + 1
                           ELSE now - 1,
                  s |-> Without(s, s[i])]

\* WEEKDAY_RE matches at i: a weekday, or a qualifier and a weekday
WeekdayAt(s, i) ==
    \/ IsWeekdayWord(s[i])
    \/ /\ i < Len(s)
       /\ IsQualifier(s[i])
       /\ IsWeekdayWord(s[i + 1])

\* WEEKDAY_RE.search: the position of the first match, or 0
WeekdayIndex(s) ==
    IF \E i \in 1..Len(s) : WeekdayAt(s, i)
    THEN CHOOSE i \in 1..Len(s) :
            WeekdayAt(s, i) /\ \A j \in 1..(i - 1) : ~WeekdayAt(s, j)
    ELSE 0

WeekdayStep(s, now) ==
    LET i == WeekdayIndex(s)
    IN  IF i = 0 THEN [date |-> NoDate, s |-> s]
        ELSE IF IsWeekdayWord(s[i])
        THEN [date |-> next_weekday(now, WEEKDAY_MAP[Lower(s[i].s)], None),
              s |-> Without(s, s[i])]
        ELSE [date |-> next_weekday(now, WEEKDAY_MAP[Lower(s[i + 1].s)],
                                    Lower(s[i].s)),
              s |-> WithoutPair(s, s[i], s[i + 1])]

\* TIME_RE.search: the position of the first token with a digit, or 0
TimeIndex(s) ==
    IF \E i \in 1..Len(s) : HasDigits(s[i])
    THEN CHOOSE i \in 1..Len(s) :
            HasDigits(s[i]) /\ \A j \in 1..(i - 1) : ~HasDigits(s[j])
    ELSE 0

\* the groups of the TIME_RE match at i.  Of an ISO token left in the text
\* the match is the first two digits of the year.  A meridiem may follow
\* the digits after whitespace (no other word of the model begins with one)
TimeMatch(s, i) ==
    IF IsIso(s[i])
    THEN [h |-> s[i].y \div 100, m |-> NoMinute, ampm |-> None]
    ELSE [h |-> s[i].h,
          m |-> s[i].m,
          ampm |-> IF s[i].ampm # None THEN s[i].ampm
                   ELSE IF /\ i < Len(s)
                           /\ IsWord(s[i + 1])
                           /\ s[i + 1].s \in MERIDIEMS
                   THEN s[i + 1].s
                   ELSE None]

\* the date parsing of parse_input: the first strategy that yields a date
\* decides it; st is "raise" when fromisoformat raised
DateSteps(s, now) ==
    LET iso == IsoStep(s)
        md == IF iso.date = NoDate THEN MonthDayStep(iso.s, now)
              ELSE [date |-> iso.date, s |-> iso.s]
        rel == IF md.date = NoDate THEN RelativeStep(md.s, now) ELSE md
        wd == IF rel.date = NoDate THEN WeekdayStep(rel.s, now) ELSE rel
    IN  [st |-> iso.st, date |-> wd.date, s |-> wd.s]

ParseNone == [kind |-> "none"]
ParseRaise == [kind |-> "raise"]

\* parse_input(raw), date.today() being now: (dt_naive, src_zone), None,
\* or an uncaught ValueError
parse_input(text, now) ==
    IF text = <<>> THEN ParseNone
    ELSE LET ms == MarkerStep(text)
             ds == DateSteps(ms.s, now)
             i == TimeIndex(ds.s)
         IN  IF ds.st = "raise" THEN ParseRaise
             ELSE IF i = 0 THEN ParseNone
             ELSE LET tm == TimeMatch(ds.s, i)
                      hour == ResolveHour(tm.h, tm.ampm)
                      minute == ResolveMinute(tm.m)
                      parsed_date == IF ds.date = NoDate THEN now ELSE ds.date
                  IN  IF ~ValidTime(hour, minute) THEN ParseRaise
                      ELSE [kind |-> "ok",
                            dt_naive |-> Combine(parsed_date, hour, minute),
                            src_zone |-> ms.src_zone]

\* format_short_core(dt, tz_label): "3:30pm Fri Feb 13 AWST", field by field
format_short_core(dt, tz_label) ==
    [hour |-> ((HourOf(dt) + 11) % 12) + 1,
     minute |-> MinuteOf(dt),
     ampm |-> IF HourOf(dt) < 12 THEN "am" ELSE "pm",
     weekday |-> Weekday(DateOf(dt)),
     month |-> MonthOf(DateOf(dt)),
     day |-> DayOf(DateOf(dt)),
     tz_label |-> tz_label]

----------------------------------------------------------------------------
(* The process: the module is imported, then main runs once                *)

\* the words and numbers input texts are made of
Vocabulary ==
    { Word("ET"), Word("Perth"), Word("Mar"), Word("today"),
      Word("tomorrow"), Word("yesterday"), Word("next"), Word("tuesday"),
      Word("hello"), Iso(BaseYear, 2, 3), Iso(BaseYear, 2, 30),
      Num(3, NoMinute, "pm"), Num(8, 0, "AM"), Num(15, 30, None),
      Num(4, NoMinute, None), Num(99, NoMinute, None) }

\* the input texts of n tokens: argv joined, or the clipboard text
TextsOfLen(n) == [1..n -> Vocabulary]

\* date.today()
Todays == {Ordinal(BaseYear, 2, 12), Ordinal(BaseYear, 3, 7)}

\* the local timezone names main runs under
MainHosts == {EasternStandardTime, NameAWST, NameUTC}

EMPTY_ADVISORY == [kind |-> "empty"]
PARSE_ADVISORY == [kind |-> "could_not_parse"]
TZDATA_ADVISORY == [kind |-> "missing_tzdata"]

Init ==
    /\ pc = "import"
    /\ tzdata \in BOOLEAN
    /\ today \in Todays
    /\ raw = <<>>
    /\ parsed = NoParse
    /\ conv = NoConv
    /\ sink = <<>>
    /\ cb = NoClipboard
    /\ call = NoCall
    /\ ret = NoRet

\* lines 47-48: ZoneInfo(...) at import raises ZoneInfoNotFoundError when
\* the zone data is missing, before main is entered
ImportModule ==
    /\ pc = "import"
    /\ pc' = IF tzdata THEN "main" ELSE "raised"
    /\ UNCHANGED <<tzdata, today, raw, parsed, conv, sink, cb, call, ret>>

\* lines 325-328: the text of argv, or of the clipboard
MainReadInput ==
    /\ pc = "main"
    /\ \E n \in 0..MaxLen : \E text \in TextsOfLen(n) : raw' = text
    /\ pc' = "have_raw"
    /\ UNCHANGED <<tzdata, today, parsed, conv, sink, cb, call, ret>>

\* lines 330-332
MainEmptyInput ==
    /\ pc = "have_raw"
    /\ raw = <<>>
    /\ sink' = Append(sink, EMPTY_ADVISORY)
    /\ pc' = "done"
    /\ UNCHANGED <<tzdata, today, raw, parsed, conv, cb, call, ret>>

\* line 334: an exception of parse_input is not caught
MainParse ==
    /\ pc = "have_raw"
    /\ raw # <<>>
    /\ parsed' = parse_input(raw, today)
    /\ pc' = IF parsed'.kind = "raise" THEN "raised" ELSE "parsed"
    /\ UNCHANGED <<tzdata, today, raw, conv, sink, cb, call, ret>>

\* lines 335-337
MainCouldNotParse ==
    /\ pc = "parsed"
    /\ parsed.kind = "none"
    /\ sink' = Append(sink, PARSE_ADVISORY)
    /\ pc' = "done"
    /\ UNCHANGED <<tzdata, today, raw, parsed, conv, cb, call, ret>>

\* lines 339-343 (the except clause of line 344 cannot be entered: the
\* zones were loaded at import)
MainConvert ==
    /\ pc = "parsed"
    /\ parsed.kind = "ok"
    /\ \E host \in MainHosts :
          LET r == determine_source_and_target(parsed.dt_naive,
                                               parsed.src_zone, host)
          IN  conv' = [kind |-> "ok",
                       host |-> host,
                       source |-> r.source,
                       target |-> r.target,
                       dt_target |-> AsTimezone(r.source, r.dt_source.wall,
                                                r.target)]
    /\ pc' = "converted"
    /\ UNCHANGED <<tzdata, today, raw, parsed, sink, cb, call, ret>>

\* lines 348-350
MainWrite ==
    /\ pc = "converted"
    /\ sink' = Append(sink,
                      [kind |-> "success",
                       raw |-> raw,
                       converted |-> format_short_core(conv.dt_target,
                                                       tz_label_for(conv.target))])
    /\ pc' = "done"
    /\ UNCHANGED <<tzdata, today, raw, parsed, conv, cb, call, ret>>

Next ==
    \/ ImportModule
    \/ MainReadInput
    \/ MainEmptyInput
    \/ MainParse
    \/ MainCouldNotParse
    \/ MainConvert
    \/ MainWrite

Spec == Init /\ [][Next]_vars

----------------------------------------------------------------------------
(* The Win32 clipboard functions: one execution of read_clipboard_windows  *)
(* or of write_clipboard_windows, one action per API call.  cb.log is the  *)
(* sequence of the API calls made, each with its success.                  *)

\* _open_clipboard_with_retry(retries=30)
Retries == 30

ApiCall(name, ok) == [api |-> name, ok |-> ok]

AfterFailureReturnAtOnce(fn) == "returned"

\* where a return inside the try block goes: to the finally clause
AfterFailure(fn) == "finally"

\* the first call of the try block
FirstCall(fn) == IF fn = "read" THEN "GetClipboardData" ELSE "EmptyClipboard"

InitClip ==
    /\ MainIdle
    /\ call = NoCall
    /\ ret = NoRet
    /\ cb \in [fn : {"read", "write"}, pc : {"open"}, attempts : {0},
               log : {<<>>}, result : {"pending"}]

\* lines 114-118: one turn of the retry loop
OpenClipboard ==
    /\ cb.fn \in {"read", "write"}
    /\ cb.pc = "open"
    /\ cb.attempts < Retries
    /\ \E ok \in BOOLEAN :
          cb' = [cb EXCEPT
                   !.attempts = @ + 1,
                   !.log = Append(@, ApiCall("OpenClipboard", ok)),
                   !.pc = IF ok THEN FirstCall(cb.fn)
                          ELSE IF cb.attempts + 1 = Retries THEN "returned"
                          ELSE "open",
                   !.result = IF ~ok /\ cb.attempts + 1 = Retries
                              THEN "not_opened" ELSE @]
    /\ UNCHANGED <<mainVars, call, ret>>

\* cb after a call of the try block that the function returns on when it
\* fails
Step(api, ok, next) ==
    [cb EXCEPT
       !.log = Append(@, ApiCall(api, ok)),
       !.pc = IF ok THEN next ELSE AfterFailure(cb.fn),
       !.result = IF ok THEN @ ELSE "failed"]

\* cb after a call whose result is not tested
Plain(api, next, result) ==
    [cb EXCEPT
       !.log = Append(@, ApiCall(api, TRUE)),
       !.pc = next,
       !.result = IF result = "same" THEN @ ELSE result]

\* read_clipboard_windows, lines 125-127
ReadGetClipboardData ==
    /\ cb.fn = "read"
    /\ cb.pc = "GetClipboardData"
    /\ \E ok \in BOOLEAN : cb' = Step("GetClipboardData", ok, "GlobalLock")
    /\ UNCHANGED <<mainVars, call, ret>>

\* lines 128-130
ReadGlobalLock ==
    /\ cb.fn = "read"
    /\ cb.pc = "GlobalLock"
    /\ \E ok \in BOOLEAN : cb' = Step("GlobalLock", ok, "wstring_at")
    /\ UNCHANGED <<mainVars, call, ret>>

\* line 132
ReadString ==
    /\ cb.fn = "read"
    /\ cb.pc = "wstring_at"
    /\ cb' = Plain("wstring_at", "GlobalUnlock", "text")
    /\ UNCHANGED <<mainVars, call, ret>>

\* line 134: the inner finally clause
ReadGlobalUnlock ==
    /\ cb.fn = "read"
    /\ cb.pc = "GlobalUnlock"
    /\ cb' = Plain("GlobalUnlock", "finally", "same")
    /\ UNCHANGED <<mainVars, call, ret>>

\* write_clipboard_windows, lines 149-150
WriteEmptyClipboard ==
    /\ cb.fn = "write"
    /\ cb.pc = "EmptyClipboard"
    /\ \E ok \in BOOLEAN : cb' = Step("EmptyClipboard", ok, "GlobalAlloc")
    /\ UNCHANGED <<mainVars, call, ret>>

\* lines 152-157
WriteGlobalAlloc ==
    /\ cb.fn = "write"
    /\ cb.pc = "GlobalAlloc"
    /\ \E ok \in BOOLEAN : cb' = Step("GlobalAlloc", ok, "GlobalLock")
    /\ UNCHANGED <<mainVars, call, ret>>

\* lines 159-161
WriteGlobalLock ==
    /\ cb.fn = "write"
    /\ cb.pc = "GlobalLock"
    /\ \E ok \in BOOLEAN : cb' = Step("GlobalLock", ok, "memmove")
    /\ UNCHANGED <<mainVars, call, ret>>

\* line 164
WriteMemmove ==
    /\ cb.fn = "write"
    /\ cb.pc = "memmove"
    /\ cb' = Plain("memmove", "GlobalUnlock", "same")
    /\ UNCHANGED <<mainVars, call, ret>>

\* line 166: the inner finally clause
WriteGlobalUnlock ==
    /\ cb.fn = "write"
    /\ cb.pc = "GlobalUnlock"
    /\ cb' = Plain("GlobalUnlock", "SetClipboardData", "same")
    /\ UNCHANGED <<mainVars, call, ret>>

\* line 169: the function ends after SetClipboardData whatever it returns
WriteSetClipboardData ==
    /\ cb.fn = "write"
    /\ cb.pc = "SetClipboardData"
    /\ \E ok \in BOOLEAN :
          cb' = [cb EXCEPT
                   !.log = Append(@, ApiCall("SetClipboardData", ok)),
                   !.pc = "finally",
                   !.result = IF ok THEN "written" ELSE "failed"]
    /\ UNCHANGED <<mainVars, call, ret>>

\* the finally clause, lines 136 and 173
CloseClipboard ==
    /\ cb.fn \in {"read", "write"}
    /\ cb.pc = "finally"
    /\ cb' = [cb EXCEPT
                !.log = Append(@, ApiCall("CloseClipboard", TRUE)),
                !.pc = "returned"]
    /\ UNCHANGED <<mainVars, call, ret>>

NextClip ==
    \/ OpenClipboard
    \/ ReadGetClipboardData
    \/ ReadGlobalLock
    \/ ReadString
    \/ ReadGlobalUnlock
    \/ WriteEmptyClipboard
    \/ WriteGlobalAlloc
    \/ WriteGlobalLock
    \/ WriteMemmove
    \/ WriteGlobalUnlock
    \/ WriteSetClipboardData
    \/ CloseClipboard

SpecClip == InitClip /\ [][NextClip]_vars

----------------------------------------------------------------------------
(* Properties                                                              *)

\* the second Sunday of March and the first Sunday of November of year y
SecondSundayOfMarch(y) ==
    CHOOSE d \in Ordinal(y, 3, 8)..Ordinal(y, 3, 14) : Weekday(d) = 6
FirstSundayOfNovember(y) ==
    CHOOSE d \in Ordinal(y, 11, 1)..Ordinal(y, 11, 7) : Weekday(d) = 6

\* dates on which New York is on standard time, or on daylight time, all day
StandardDate(d) ==
    d < SecondSundayOfMarch(YearOf(d)) \/ d > FirstSundayOfNovember(YearOf(d))
DaylightDate(d) ==
    d > SecondSundayOfMarch(YearOf(d)) /\ d < FirstSundayOfNovember(YearOf(d))

\* wall-clock values of New York that do not exist, or occur twice
InSpringForwardGap(w) ==
    DateOf(w) = SecondSundayOfMarch(YearOf(DateOf(w))) /\ HourOf(w) = 2
InFallBackOverlap(w) ==
    DateOf(w) = FirstSundayOfNovember(YearOf(DateOf(w))) /\ HourOf(w) = 1

HasMarkerA(text) == \E i \in 1..Len(text) : IsMarker(text[i], ET_MARKERS)
HasMarkerB(text) == \E i \in 1..Len(text) : IsMarker(text[i], AWST_MARKERS)

Advisories == {EMPTY_ADVISORY, PARSE_ADVISORY, TZDATA_ADVISORY}

\* C1: whatever the input text, a run of main ends normally having written
\* exactly one string to the text sink, and that string is the annotated
\* success string or one of the three advisories; no run ends with an
\* uncaught exception
C1_MainAlwaysWritesOnce ==
    /\ Len(sink) <= 1
    /\ (pc = "done") =>
          /\ Len(sink) = 1
          /\ sink[1] \in Advisories \/ sink[1].kind = "success"
    /\ tzdata => pc # "raised"

\* C2, as claimed: an input with a zone-A marker resolves to source zone A
\* and an input with a zone-B marker to source zone B, whatever the host
\* timezone, also when the input has markers of both zones
C2_MarkerDecidesSource ==
    (conv.kind = "ok") =>
        /\ HasMarkerA(raw) => conv.source = ET
        /\ HasMarkerB(raw) => conv.source = AWST

\* C2, as amended: an input with a zone-A marker resolves to source zone A;
\* an input with a zone-B marker and no zone-A marker resolves to source
\* zone B; both whatever the host timezone is
C2_MarkerDecidesSourceAFirst ==
    (conv.kind = "ok") =>
        /\ HasMarkerA(raw) => conv.source = ET /\ conv.target = AWST
        /\ (HasMarkerB(raw) /\ ~HasMarkerA(raw)) =>
               conv.source = AWST /\ conv.target = ET

\* an input with markers of both zones, under a Perth host, resolved to A
C2_Witness ==
    /\ conv.kind = "ok"
    /\ HasMarkerA(raw)
    /\ HasMarkerB(raw)
    /\ conv.host = NameAWST
    /\ conv.source = ET

\* host names that indicate zone A, and zone B
ZoneAHosts ==
    {NewYorkKey, EasternStandardTime, EasternDaylightTime, AusEasternStandardTime}
ZoneBHosts == {PerthKey, NameAWST}

\* C3: determine_source_and_target always returns two distinct supported
\* zones; the source is the hint when there is one, and otherwise depends
\* on the host name alone: zone A when it indicates zone A, zone B when it
\* indicates zone B, zone A when it is unrecognized; the target is the
\* other zone
C3_SourceAndTarget ==
    (ret.fn = "determine") =>
        /\ ret.r.source \in Zones
        /\ ret.r.target \in Zones
        /\ ret.r.target # ret.r.source
        /\ ret.r.dt_source = [wall |-> call.dt_naive, tzinfo |-> ret.r.source]
        /\ (call.hint # None) => ret.r.source = call.hint
        /\ (call.hint = None) =>
              ret.r.source = (IF call.host \in ZoneAHosts THEN ET
                              ELSE IF call.host \in ZoneBHosts THEN AWST
                              ELSE ET)

\* no hint, a host name that indicates zone B: source B, target A
C3_Witness ==
    /\ ret.fn = "determine"
    /\ call.hint = None
    /\ call.host = NameAWST
    /\ ret.r.source = AWST
    /\ ret.r.target = ET

\* C4: next_weekday returns a date on the target weekday; with "next" it
\* lies 1..7 days after the reference date, 7 exactly when the reference
\* date is on the target weekday; with "this" or no qualifier it lies 0..6
\* days after, 0 exactly when the reference date is on the target weekday
C4_NextWeekday ==
    (ret.fn = "next_weekday") =>
        LET offset == ret.date - call.reference
            same == Weekday(call.reference) = call.target_wd
        IN  /\ Weekday(ret.date) = call.target_wd
            /\ (call.when = "next") =>
                  /\ offset \in 1..7
                  /\ (offset = 7) <=> same
            /\ (call.when # "next") =>
                  /\ offset \in 0..6
                  /\ (offset = 0) <=> same

\* "next tuesday" asked on a Tuesday gives the Tuesday a week later
C4_Witness ==
    /\ ret.fn = "next_weekday"
    /\ call.when = "next"
    /\ call.target_wd = 1
    /\ Weekday(call.reference) = 1
    /\ ret.date = call.reference + 7

\* C5, as claimed: the minute is 0 when absent; "pm" with hour 1..11 adds
\* 12; "am" with hour 12 gives 0; every other combination, hour 0 with
\* "pm" among them, leaves the hour unchanged
C5_HourRulesPmFromOne ==
    (ret.fn = "time") =>
        /\ ret.minute = (IF call.m = NoMinute THEN 0 ELSE call.m)
        /\ ret.hour = (IF call.ampm \in {"pm", "PM"} /\ call.h \in 1..11
                       THEN call.h + 12
                       ELSE IF call.ampm \in {"am", "AM"} /\ call.h = 12
                       THEN 0
                       ELSE call.h)

\* C5, as amended: the minute is 0 when absent; "pm" with hour 0..11 adds
\* 12 (so hour 0 with "pm" gives 12); "am" with hour 12 gives 0; every
\* other combination leaves the hour unchanged
C5_HourRulesPmFromZero ==
    (ret.fn = "time") =>
        /\ ret.minute = (IF call.m = NoMinute THEN 0 ELSE call.m)
        /\ ret.hour = (IF call.ampm \in {"pm", "PM"} /\ call.h \in 0..11
                       THEN call.h + 12
                       ELSE IF call.ampm \in {"am", "AM"} /\ call.h = 12
                       THEN 0
                       ELSE call.h)

\* "0pm" resolved to hour 12
C5_Witness ==
    /\ ret.fn = "time"
    /\ call.h = 0
    /\ call.ampm = "pm"
    /\ ret.hour = 12

\* C6, as claimed: every wall-clock value of zone A, converted to zone B
\* and back to zone A, comes back unchanged
C6_RoundTripEveryWallClock ==
    (ret.fn = "back" /\ call.hint = ET) => ret.dt_target = call.dt_naive

\* C6, as amended: every wall-clock value of zone A outside the
\* spring-forward gap, those of the fall-back overlap included, comes back
\* unchanged; a value inside the gap comes back one hour later
C6_RoundTripOutsideGap ==
    (ret.fn = "back" /\ call.hint = ET) =>
        /\ ret.source = AWST
        /\ ret.target = ET
        /\ ret.dt_target = (IF InSpringForwardGap(call.dt_naive)
                            THEN call.dt_naive + 60
                            ELSE call.dt_naive)

\* a wall-clock value of the fall-back overlap that came back unchanged
C6_Witness ==
    /\ ret.fn = "back"
    /\ call.hint = ET
    /\ InFallBackOverlap(call.dt_naive)
    /\ ret.dt_target = call.dt_naive

\* C9: the conversion keeps the instant: from A to B it adds 13 hours on a
\* standard-time date and 12 hours on a daylight-time date (on a transition
\* date, 13 or 12 by the offset in force at that time), from B to A it
\* subtracts them, the date rolling over; 2026-02-12 15:30 in A is
\* 2026-02-13 04:30 in B and 2026-02-03 08:00 in B is 2026-02-02 19:00 in A
C9_ConversionKeepsInstant ==
    (ret.fn = "convert") =>
        LET w == call.dt_naive
            t == ret.dt_target
            y == YearOf(DateOf(w))
        IN  /\ (call.hint = ET) =>
                  /\ ret.source = ET /\ ret.target = AWST
                  /\ t - w \in {12 * 60, 13 * 60}
                  /\ StandardDate(DateOf(w)) => t = w + 13 * 60
                  /\ DaylightDate(DateOf(w)) => t = w + 12 * 60
                  /\ (DateOf(w) = SecondSundayOfMarch(y)) =>
                        t = w + (IF HourOf(w) < 3 THEN 13 ELSE 12) * 60
                  /\ (DateOf(w) = FirstSundayOfNovember(y)) =>
                        t = w + (IF HourOf(w) < 2 THEN 12 ELSE 13) * 60
            /\ (call.hint = AWST) =>
                  /\ ret.source = AWST /\ ret.target = ET
                  /\ w - t \in {12 * 60, 13 * 60}
                  /\ StandardDate(DateOf(t)) => t = w - 13 * 60
                  /\ DaylightDate(DateOf(t)) => t = w - 12 * 60
            /\ (call.hint = ET /\ w = Combine(Ordinal(2026, 2, 12), 15, 30)) =>
                  t = Combine(Ordinal(2026, 2, 13), 4, 30)
            /\ (call.hint = AWST /\ w = Combine(Ordinal(2026, 2, 3), 8, 0)) =>
                  t = Combine(Ordinal(2026, 2, 2), 19, 0)

\* 2026-02-12 15:30 in zone A converted to 2026-02-13 04:30 in zone B
C9_Witness ==
    /\ ret.fn = "convert"
    /\ call.hint = ET
    /\ call.dt_naive = Combine(Ordinal(2026, 2, 12), 15, 30)
    /\ ret.dt_target = Combine(Ordinal(2026, 2, 13), 4, 30)

\* every number token of the text is a clock time in range, and one of
\* them does not follow a word (so it cannot be taken for a day number)
C7_HasClockTime(text) ==
    /\ \A i \in 1..Len(text) :
          IsNum(text[i]) => text[i].h <= 23 /\ text[i].m <= 59
    /\ \E i \in 1..Len(text) :
          IsNum(text[i]) /\ (i = 1 \/ ~IsWord(text[i - 1]))

\* the date the precedence ISO > month+day > relative > weekday > today
\* chooses in a text, NoDate when its ISO token is no calendar date
C7_PrecedenceDate(text, now) ==
    LET s == MarkerStep(text).s
        i == IsoIndex(s)
        md == MonthDayStep(s, now)
        rel == RelativeStep(s, now)
        wd == WeekdayStep(s, now)
    IN  IF i # 0
        THEN (IF ValidIso(s[i]) THEN Ordinal(s[i].y, s[i].m, s[i].d) ELSE NoDate)
        ELSE IF md.date # NoDate THEN md.date
        ELSE IF rel.date # NoDate THEN rel.date
        ELSE IF wd.date # NoDate THEN wd.date
        ELSE now

\* C7: for every input with a clock-time token parse_input resolves exactly
\* one calendar date, chosen by strict precedence: the ISO date, else the
\* month+day token (one that cannot be resolved counts as absent), else the
\* relative keyword, else the weekday expression, else the current date
C7_DateByPrecedence ==
    (pc \in {"parsed", "raised"} /\ C7_HasClockTime(raw)) =>
        /\ parsed.kind = "ok"
        /\ DateOf(parsed.dt_naive) = C7_PrecedenceDate(raw, today)

\* the text has no clock-time token: no number token at all
C8_NoClockToken(text) == \A i \in 1..Len(text) : ~IsNum(text[i])

\* C8: an empty or blank input yields the empty-input advisory without any
\* parsing or conversion; a non-blank input without a clock-time token
\* yields the could-not-parse advisory; in neither case is a date/time
\* converted or a success string written
C8_FailureClassification ==
    (tzdata /\ pc \in {"have_raw", "parsed", "converted", "done", "raised"}) =>
        /\ (raw = <<>>) =>
              /\ pc \in {"have_raw", "done"}
              /\ parsed = NoParse
              /\ conv = NoConv
              /\ (pc = "done") => sink = <<EMPTY_ADVISORY>>
        /\ (raw # <<>> /\ C8_NoClockToken(raw)) =>
              /\ pc \in {"have_raw", "parsed", "done"}
              /\ conv = NoConv
              /\ (pc = "done") => sink = <<PARSE_ADVISORY>>

\* the positions of the calls of an API function in a log
CallsOf(log, api) == {i \in 1..Len(log) : log[i].api = api}

\* C10: in every execution of read_clipboard_windows and of
\* write_clipboard_windows OpenClipboard is attempted at most 30 times and
\* never again after a success; after a success CloseClipboard is called
\* exactly once, as the last call, on every return path; when all 30
\* attempts fail no other call is made and the function returns
C10_OpenClosePairing ==
    (cb.fn \in {"read", "write"}) =>
        LET log == cb.log
            opens == CallsOf(log, "OpenClipboard")
            closes == CallsOf(log, "CloseClipboard")
            opened == \E i \in opens : log[i].ok
        IN  /\ Cardinality(opens) <= 30
            /\ \A i \in opens : log[i].ok => \A j \in opens : j <= i
            /\ \A i \in closes : i = Len(log)
            /\ ~opened => opens = 1..Len(log)
            /\ (cb.pc = "returned") =>
                  IF opened
                  THEN Cardinality(closes) = 1
                  ELSE /\ Len(log) = 30
                       /\ cb.result = "not_opened"

\* write_clipboard_windows returned early, GlobalAlloc having failed, and
\* closed the clipboard it had opened
C10_Witness ==
    /\ cb.fn = "write"
    /\ cb.pc = "returned"
    /\ Len(cb.log) >= 2
    /\ cb.log[Len(cb.log) - 1] = ApiCall("GlobalAlloc", FALSE)
    /\ cb.log[Len(cb.log)] = ApiCall("CloseClipboard", TRUE)

====
